---- MODULE Spec2Model ----
(***************************************************************************)
(* Model of the poe2 bundle codec (bundle/src/lib.rs, bundle/src/util.rs)  *)
(* and of the index payload parser (bundle/src/index.rs).                  *)
(*                                                                         *)
(* Byte strings are sequences over 0..255 and every integer field keeps    *)
(* its wire width (little-endian u32 / i32 / i64).  A Rust panic (slice    *)
(* index out of range, unwrap on Err, expect) is the outcome "Panic"; it   *)
(* is distinct from a returned Err value.                                  *)
(***************************************************************************)
EXTENDS Integers, Sequences, FiniteSets, TLC

VARIABLES
    input,      \* the byte string handed to the program
    pc,         \* where the caller is in its sequence of library calls
    parsed,     \* outcome of Bundle::try_from(input)
    bundle,     \* the Bundle the caller currently holds
    raw,        \* the data argument of the last Bundle::new call
    newRes,     \* outcome of the last Bundle::new call
    buffer,     \* _decompress: the output buffer
    pending,    \* _decompress: chunk tasks not yet run
    writes,     \* _decompress: per task, the buffer positions it has written
    failed,     \* _decompress: tasks whose Oodle call returned Err (unwrap panics)
    decRes,     \* outcome of the last _decompress call
    depth,      \* to_vec / into: frames of the conversion on the call stack
    serRes,     \* outcome of the to_vec call
    index,      \* outcome of Index::try_from(input)
    cache,      \* Index.cache: the OnceLock's value, None while it is empty
    once,       \* the OnceLock's state
    tpc,        \* per calling thread: where it is in build_paths
    tres,       \* per calling thread: what build_paths gave it
    shaders,    \* extract: the shaders argument
    disk,       \* extract: the files of <input>/Bundles2
    outfs,      \* extract: the files and directories of the output side
    btask,      \* extract: per bundle of the map, the state of its task
    ftask,      \* extract: per (bundle, position), the state of a file task
    extRes      \* outcome of extract

vars == <<input, pc, parsed, bundle, raw, newRes, buffer, pending, writes,
          failed, decRes, depth, serRes, index, cache, once, tpc, tres,
          shaders, disk, outfs, btask, ftask, extRes>>

thrVars == <<cache, once, tpc, tres>>
extVars == <<shaders, disk, outfs, btask, ftask, extRes>>

(***************************************************************************)
(* Bounds of the model                                                     *)
(***************************************************************************)
\* longest raw payload compressed or carried by a generated bundle
MaxRawLen == 3
\* integer fields are tracked exactly below this magnitude
Huge == 16777216
\* the values of the path hash
HashMod == 65521
\* most tokens (index 0, or an index with its string) after the first u32 of
\* a generated dictionary slice
MaxTokens == 4
\* most records in a generated index table
MaxRecords == 2
\* threads that call build_paths on one Index
MaxThreads == 2
\* frames the conversion may push before the thread's stack is exhausted
MaxStack == 3

\* byte values of generated raw payloads
RawByteVals == {0, 1}

None == [tag |-> "None"]
Panic == [tag |-> "Panic"]

Min(a, b) == IF a < b THEN a ELSE b

RECURSIVE SumSeq(_)
SumSeq(s) == IF s = <<>> THEN 0 ELSE Head(s) + SumSeq(Tail(s))

RECURSIVE Flatten(_)
Flatten(ss) == IF ss = <<>> THEN <<>> ELSE Head(ss) \o Flatten(Tail(ss))

(***************************************************************************)
(* util.rs: the byte cursor.  Every reader indexes slice[offset..offset+n] *)
(* and panics when the range leaves the slice.                             *)
(***************************************************************************)
\* slice[offset .. offset + n] is in range (offsets are 0-based)
InRange(slice, offset, n) == n >= 0 /\ offset + n <= Len(slice)

read_bytes(slice, n, offset) == SubSeq(slice, offset + 1, offset + n)

\* Horner evaluation from the most significant byte down.  A value of
\* magnitude Huge or more is represented by Huge (with its sign): it is
\* larger than every length and offset of the model.
RECURSIVE horner(_, _, _)
horner(bs, acc, k) ==
    IF k = 0 THEN acc
    ELSE IF acc >= Huge \div 256 THEN horner(bs, Huge, k - 1)
    ELSE IF acc < -(Huge \div 256) THEN horner(bs, -Huge, k - 1)
    ELSE horner(bs, acc * 256 + bs[k], k - 1)

\* u32::from_le_bytes / i32::from_le_bytes / i64::from_le_bytes
from_le_bytes(bs, signed) ==
    LET n   == Len(bs)
        top == IF signed /\ bs[n] >= 128 THEN bs[n] - 256 ELSE bs[n]
    IN  horner(bs, top, n - 1)

\* little-endian encoding of v in k bytes (two's complement for v < 0)
RECURSIVE to_le_bytes(_, _)
to_le_bytes(v, k) ==
    IF k = 0 THEN <<>> ELSE <<v % 256>> \o to_le_bytes(v \div 256, k - 1)

read_u32(slice, offset) == from_le_bytes(read_bytes(slice, 4, offset), FALSE)
read_i32(slice, offset) == from_le_bytes(read_bytes(slice, 4, offset), TRUE)
read_i64(slice, offset) == from_le_bytes(read_bytes(slice, 8, offset), TRUE)

(***************************************************************************)
(* The Oodle library, seen through the three calls the codec makes.  It is *)
(* an external collaborator: a chunk compresses to a framed block (magic,  *)
(* raw length, coded bytes) and a block decodes only into a destination of *)
(* exactly its raw length.                                                 *)
(***************************************************************************)
\* OODLELZ_BLOCK_LEN, scaled down
BLOCK_LEN == 2
\* first byte of every coded block
OodleMagic == 76
\* bytes of the block header (magic, raw length)
OodleHdr == 2
\* size_of::<OodleLZ_SeekTable>()
SEEK_TABLE_STRUCT == 48

\* the coding of one byte (an involution)
OodleCode(b) == IF b % 2 = 0 THEN b + 1 ELSE b - 1

\* oodle_safe::compress: the coded block of one chunk
OodleCompress(chunk) ==
    <<OodleMagic, Len(chunk)>> \o [i \in 1..Len(chunk) |-> OodleCode(chunk[i])]

\* OodleLZ_GetCompressedBufferSizeNeeded
OodleLZ_GetCompressedBufferSizeNeeded(rawLen) == rawLen + OodleHdr + 1

\* oodle_safe::decompress(chunk, buf): Ok(bytes written into buf) or Err
OodleDecompress(comp, bufLen) ==
    IF /\ Len(comp) = OodleHdr + bufLen
       /\ comp[1] = OodleMagic
       /\ comp[2] = bufLen
    THEN [tag |-> "Ok",
          bytes |-> [i \in 1..bufLen |-> OodleCode(comp[OodleHdr + i])]]
    ELSE [tag |-> "Err"]

\* slice.chunks(n) / par_chunks(n) / par_chunks_mut(n): the number of pieces
NumPieces(len, n) == (len + n - 1) \div n
\* 0-based start and exclusive end of piece i (0-based)
PieceStart(i, n) == i * n
PieceEnd(i, n, len) == Min((i + 1) * n, len)
\* the pieces of data, in order
Pieces(data, n) ==
    [i \in 1..NumPieces(Len(data), n) |->
        SubSeq(data, PieceStart(i - 1, n) + 1, PieceEnd(i - 1, n, Len(data)))]

(***************************************************************************)
(* lib.rs: Bundle::try_from(&[u8])                                         *)
(***************************************************************************)
U32 == 4
I64 == 8
\* the three sizes and the seek-table scalars: 3*4 + 4+4+8+8+4+4+8+8
HEADER_LEN == 3 * U32 + 4 * U32 + 4 * I64

\* value[offset..offset+size] for each size in lens, in order;
\* ok = FALSE when a range leaves the slice (the indexing panics)
RECURSIVE read_chunks(_, _, _, _)
read_chunks(value, lens, offset, acc) ==
    IF lens = <<>> THEN [ok |-> TRUE, chunks |-> acc, offset |-> offset]
    ELSE IF ~InRange(value, offset, Head(lens))
         THEN [ok |-> FALSE, chunks |-> acc, offset |-> offset]
         ELSE read_chunks(value, Tail(lens), offset + Head(lens),
                          Append(acc, read_bytes(value, Head(lens), offset)))

\* the u32 values of a byte string read by chunks_exact(4)
u32_array(bs) == [i \in 1..(Len(bs) \div U32) |-> read_u32(bs, U32 * (i - 1))]

BundleTryFrom(value) ==
    IF ~InRange(value, 0, HEADER_LEN) THEN Panic
    ELSE
    LET uncompressed_size == read_u32(value, 0)
        compressed_size   == read_u32(value, 4)
        seek_table_size   == read_u32(value, 8)
        seek_table == [compressor            |-> read_i32(value, 12),
                       seekChunksIndependent |-> read_i32(value, 16),
                       totalRawLen           |-> read_i64(value, 20),
                       totalCompLen          |-> read_i64(value, 28),
                       numSeekChunks         |-> read_i32(value, 36),
                       seekChunkLen          |-> read_i32(value, 40)]
        n == seek_table.numSeekChunks * U32
    IN
    \* a negative numSeekChunks is a huge usize: the range is out of bounds
    IF ~InRange(value, HEADER_LEN, n) THEN Panic
    ELSE
    LET seek_chunk_comp_lens == u32_array(read_bytes(value, n, HEADER_LEN))
        rc == read_chunks(value, seek_chunk_comp_lens, HEADER_LEN + n, <<>>)
    IN
    IF ~rc.ok THEN Panic
    ELSE IF rc.offset # Len(value) /\ ~InRange(value, rc.offset, n) THEN Panic
    ELSE [tag |-> "Ok",
          bundle |->
            [uncompressed_size    |-> uncompressed_size,
             compressed_size      |-> compressed_size,
             seek_table_size      |-> seek_table_size,
             seek_table           |-> seek_table,
             seek_chunk_comp_lens |-> seek_chunk_comp_lens,
             raw_crcs |-> IF rc.offset # Len(value)
                          THEN [tag |-> "Some",
                                v |-> u32_array(read_bytes(value, n, rc.offset))]
                          ELSE None,
             chunks |-> rc.chunks]]

(***************************************************************************)
(* lib.rs: Bundle::new(data)                                               *)
(***************************************************************************)
\* OodleLZ_Compressor_Hydra
Hydra == 12
\* size of one address in the flattened Vec<&u8>
PTR == 8
\* addresses the allocator may hand out for a compressed byte
HeapAddrs == {4096, 332}

Zeros(n) == [i \in 1..n |-> 0]

\* the per-chunk closure of Bundle::new: the coded block, or, when Oodle
\* reports an error, the zero-filled buffer of the size that was reserved
compress_chunk(chunk, oodleOk) ==
    IF oodleOk THEN OodleCompress(chunk)
    ELSE Zeros(OodleLZ_GetCompressedBufferSizeNeeded(Len(chunk)))

\* `compressed: Vec<&u8>` holds one address per compressed byte, and
\* compressed.as_ptr() is what OodleLZ_CreateSeekTable is given as its
\* compressed buffer: Oodle reads compLen bytes of addresses
\* (base = the address of the first compressed byte)
ptr_array_bytes(base, compLen) ==
    SubSeq(Flatten([i \in 1..compLen |-> to_le_bytes(base + i - 1, PTR)]),
           1, compLen)

\* Oodle walks the blocks of the compressed buffer, one per seek chunk
RECURSIVE seek_walk(_, _, _, _, _)
seek_walk(comp, pos, rawLeft, seekChunkLen, lens) ==
    IF rawLeft = 0 THEN [ok |-> pos = Len(comp), lens |-> lens]
    ELSE LET want == Min(rawLeft, seekChunkLen)
         IN  IF /\ InRange(comp, pos, OodleHdr + want)
                /\ comp[pos + 1] = OodleMagic
                /\ comp[pos + 2] = want
             THEN seek_walk(comp, pos + OodleHdr + want, rawLeft - want,
                            seekChunkLen, Append(lens, OodleHdr + want))
             ELSE [ok |-> FALSE, lens |-> lens]

\* OodleLZ_CreateSeekTable(Flags_None, seekChunkLen, raw, rawLen, comp, compLen):
\* None is the NULL it returns when the compressed buffer does not parse
OodleLZ_CreateSeekTable(seekChunkLen, rawLen, comp) ==
    LET w == seek_walk(comp, 0, rawLen, seekChunkLen, <<>>)
    IN  IF ~w.ok THEN None
        ELSE [tag |-> "Some",
              v |-> [compressor            |-> Hydra,
                     seekChunksIndependent |-> 1,
                     totalRawLen           |-> rawLen,
                     totalCompLen          |-> Len(comp),
                     numSeekChunks         |-> Len(w.lens),
                     seekChunkLen          |-> seekChunkLen,
                     seekChunkCompLens     |-> w.lens]]

\* OodleLZ_GetSeekTableMemorySizeNeeded(numSeekChunks, Flags_None)
OodleLZ_GetSeekTableMemorySizeNeeded(numSeekChunks) ==
    SEEK_TABLE_STRUCT + U32 * numSeekChunks

\* what Bundle::new hands to OodleLZ_CreateSeekTable as the compressed buffer
seek_table_source(chunks, base) ==
    ptr_array_bytes(base, Len(Flatten(chunks)))

\* Bundle::new(data); oodleErr = the chunks (1-based) Oodle fails to compress,
\* base = the address of the first compressed byte
BundleNew(data, oodleErr, base) ==
    LET pieces == Pieces(data, BLOCK_LEN)
        chunks == [i \in 1..Len(pieces) |->
                      compress_chunk(pieces[i], i \notin oodleErr)]
        compressed_len == Len(Flatten(chunks))
        st == OodleLZ_CreateSeekTable(BLOCK_LEN, Len(data),
                                      seek_table_source(chunks, base))
    IN  IF st = None THEN [tag |-> "Err"]
        ELSE IF st.v.totalRawLen # Len(data) THEN [tag |-> "Err"]
        ELSE IF st.v.totalCompLen # compressed_len THEN [tag |-> "Err"]
        ELSE [tag |-> "Ok",
              bundle |->
                [uncompressed_size    |-> Len(data),
                 compressed_size      |-> compressed_len,
                 seek_table_size      |->
                     OodleLZ_GetSeekTableMemorySizeNeeded(Len(pieces)),
                 seek_table |-> [compressor |-> st.v.compressor,
                                 seekChunksIndependent |->
                                     st.v.seekChunksIndependent,
                                 totalRawLen   |-> st.v.totalRawLen,
                                 totalCompLen  |-> st.v.totalCompLen,
                                 numSeekChunks |-> st.v.numSeekChunks,
                                 seekChunkLen  |-> st.v.seekChunkLen],
                 seek_chunk_comp_lens |-> st.v.seekChunkCompLens,
                 raw_crcs             |-> None,
                 chunks               |-> chunks]]

(***************************************************************************)
(* lib.rs: Bundle::_decompress                                             *)
(***************************************************************************)
\* the buffer sized by the header's uncompressed_size instead
alloc_len_header(b) == b.uncompressed_size

\* vec![0; total_size]: the length of the output buffer
alloc_len(b) == b.seek_table.totalRawLen

\* seekChunkLen as usize: a negative i32 is larger than any buffer
block_size(b) ==
    IF b.seek_table.seekChunkLen < 0 THEN alloc_len(b) + 1
    ELSE b.seek_table.seekChunkLen

\* chunks.par_iter().zip(buffer.par_chunks_mut(block_size)): the tasks (0-based)
zip_tasks(b) ==
    0..(Min(Len(b.chunks), NumPieces(alloc_len(b), block_size(b))) - 1)

\* every task handed the head of the buffer instead of its own piece
dest_shared(i, block, total) ==
    [lo |-> 0, hi |-> PieceEnd(i, block, total) - PieceStart(i, block)]

\* the piece of the buffer par_chunks_mut hands to task i: positions lo+1..hi
dest(i, block, total) ==
    [lo |-> PieceStart(i, block), hi |-> PieceEnd(i, block, total)]

\* the buffer after bytes were stored at positions lo+1 .. lo+Len(bytes)
store(buf, lo, bytes) ==
    [k \in 1..Len(buf) |->
        IF k > lo /\ k <= lo + Len(bytes) THEN bytes[k - lo] ELSE buf[k]]

Ok(bytes) == [tag |-> "Ok", bytes |-> bytes]

\* _decompress run one task after the other, in chunk order
RECURSIVE decode_in_order(_, _, _)
decode_in_order(b, i, buf) ==
    IF i \notin zip_tasks(b) THEN buf
    ELSE LET lo == i * block_size(b)
             hi == Min((i + 1) * block_size(b), b.seek_table.totalRawLen)
             res == OodleDecompress(b.chunks[i + 1], hi - lo)
         IN  decode_in_order(b, i + 1, store(buf, lo, res.bytes))

(***************************************************************************)
(* index.rs: Index::try_from(&[u8]) and the three record parsers           *)
(***************************************************************************)
\* size_of::<FileRecord>(): repr(C, packed) { u64, u32, u32, u32 }
FILE_RECORD_SIZE == 20
\* size_of::<PathRecord>() with the 4 bytes of padding that repr(C) alone adds
PATH_SIZE_padded == 24
\* size_of::<PathRecord>(): repr(C, packed) { u64, u32, u32, u32 }
PATH_SIZE == 20

read_u64(slice, offset) == from_le_bytes(read_bytes(slice, 8, offset), FALSE)

\* std::str::from_utf8 on the path bytes (the inputs are ASCII or hold a
\* byte >= 128 on its own, which is never valid UTF-8)
is_utf8(bs) == \A k \in 1..Len(bs) : bs[k] < 128

\* BundleRecord::try_from(&value[offset..])
BundleRecordTryFrom(value, offset) ==
    LET len == Len(value) - offset
    IN  IF len < 4 THEN [tag |-> "Err"]
        ELSE LET str_len     == read_u32(value, offset)
                 record_size == 4 + str_len + 4
             IN  IF len < record_size THEN [tag |-> "Err"]
                 ELSE IF ~is_utf8(read_bytes(value, str_len, offset + 4))
                 THEN Panic
                 ELSE [tag |-> "Ok",
                       v |-> [path |-> read_bytes(value, str_len, offset + 4),
                              uncompressed_size |->
                                  read_u32(value, offset + 4 + str_len)]]

\* BundleRecord::size
BundleRecordSize(r) == 4 + Len(r.path) + 4

\* the loop over bundle_count records
RECURSIVE read_bundle_records(_, _, _, _)
read_bundle_records(value, count, offset, acc) ==
    IF count = 0 THEN [tag |-> "Ok", v |-> acc, offset |-> offset]
    ELSE LET r == BundleRecordTryFrom(value, offset)
         IN  IF r.tag # "Ok" THEN r
             ELSE read_bundle_records(value, count - 1,
                                      offset + BundleRecordSize(r.v),
                                      Append(acc, r.v))

\* FileRecord::try_from on value[offset..offset+20]
FileRecordTryFrom(value, offset) ==
    [hash       |-> read_u64(value, offset),
     bundle_idx |-> read_u32(value, offset + 8),
     offset     |-> read_u32(value, offset + 12),
     size       |-> read_u32(value, offset + 16)]

\* PathRecord::try_from on value[offset..offset+PATH_SIZE]
PathRecordTryFrom(value, offset) ==
    [hash             |-> read_u64(value, offset),
     offset           |-> read_u32(value, offset + 8),
     size             |-> read_u32(value, offset + 12),
     recursive_length |-> read_u32(value, offset + 16),
     offset_le        |-> read_bytes(value, 4, offset + 8),
     size_le          |-> read_bytes(value, 4, offset + 12)]

IndexTryFrom(value) ==
    IF ~InRange(value, 0, 4) THEN Panic
    ELSE
    LET bundle_count == read_u32(value, 0)
        bs == read_bundle_records(value, bundle_count, 4, <<>>)
    IN
    IF bs.tag # "Ok" THEN bs
    ELSE IF ~InRange(value, bs.offset, 4) THEN Panic
    ELSE
    LET file_count == read_u32(value, bs.offset)
        files_at   == bs.offset + 4
    IN
    IF ~InRange(value, files_at, FILE_RECORD_SIZE * file_count) THEN Panic
    ELSE
    LET paths_cnt_at == files_at + FILE_RECORD_SIZE * file_count
    IN
    IF ~InRange(value, paths_cnt_at, 4) THEN Panic
    ELSE
    LET path_count == read_u32(value, paths_cnt_at)
        paths_at   == paths_cnt_at + 4
    IN
    IF ~InRange(value, paths_at, PATH_SIZE * path_count) THEN Panic
    ELSE
    LET offset == paths_at + PATH_SIZE * path_count
        data   == SubSeq(value, offset + 1, Len(value))
        pb     == BundleTryFrom(data)
    IN
    IF pb.tag # "Ok" THEN Panic
    ELSE [tag |-> "Ok",
          v |-> [bundles |-> bs.v,
                 files |-> [i \in 1..file_count |->
                     FileRecordTryFrom(value,
                                       files_at + FILE_RECORD_SIZE * (i - 1))],
                 paths |-> [i \in 1..path_count |->
                     PathRecordTryFrom(value, paths_at + PATH_SIZE * (i - 1))],
                 path_bundle |-> pb.bundle,
                 path_bundle_offset |-> offset]]

(***************************************************************************)
(* index.rs: Index::build_paths, the closure given to cache.get_or_init    *)
(***************************************************************************)
\* the seed of the path hash
SEED == 322417471

\* murmurhash64::murmur_hash64a(bytes, seed), an external hash: here a
\* multiplicative hash with values below HashMod
RECURSIVE murmur_mix(_, _)
murmur_mix(h, bs) ==
    IF bs = <<>> THEN h
    ELSE murmur_mix((h * 33 + Head(bs)) % HashMod, Tail(bs))

murmur_hash64a(bs, seed) == murmur_mix((seed + Len(bs)) % HashMod, bs)

\* Bundle::decompress, every chunk task run: the bytes or the panic
DecompressAll(b) ==
    IF alloc_len(b) < 0 \/ block_size(b) = 0 THEN Panic
    ELSE IF \E i \in zip_tasks(b) :
                LET d == dest(i, block_size(b), alloc_len(b))
                IN  OodleDecompress(b.chunks[i + 1], d.hi - d.lo).tag # "Ok"
         THEN Panic
         ELSE Ok(decode_in_order(b, 0, Zeros(alloc_len(b))))

\* slice.iter().position(|&b| b == 0) from offset on: the 0-based position
\* relative to offset, or -1
RECURSIVE nul_position(_, _, _)
nul_position(slice, offset, k) ==
    IF offset + k >= Len(slice) THEN -1
    ELSE IF slice[offset + k + 1] = 0 THEN k
    ELSE nul_position(slice, offset, k + 1)

\* util.rs: find_cstring(slice, &mut offset)
find_cstring(slice, offset) ==
    LET pos == nul_position(slice, offset, 0)
    IN  IF pos < 0 THEN None
        ELSE IF ~is_utf8(read_bytes(slice, pos, offset)) THEN Panic
        ELSE [tag |-> "Some", string |-> read_bytes(slice, pos, offset),
              offset |-> offset + pos + 1]

\* path_slice after index 0 was read and building flipped to the value
\* given: `if building { path_slice.clear() }`
after_flip_cleared(building, path_slice) == <<>>

after_flip(building, path_slice) ==
    IF building THEN <<>> ELSE path_slice

\* the string of an entry with wire index idx: `index -= 1`, then the
\* fragment at index in front of it if there is one
with_prefix_above_first(idx, path_slice, str) ==
    IF idx - 1 > 0 /\ idx - 1 < Len(path_slice)
    THEN path_slice[idx] \o str ELSE str

with_prefix(idx, path_slice, str) ==
    IF idx - 1 < Len(path_slice) THEN path_slice[idx] \o str ELSE str

\* path_slice.push(string.clone())
push_front(path_slice, str) == <<str>> \o path_slice

push(path_slice, str) == Append(path_slice, str)

\* the while loop over one PathRecord slice; emits = the strings pushed to
\* path_slice, in order, each with the value of building at its push, the
\* number of fragments path_slice held before the push, the position of its
\* index and the position after its NUL
RECURSIVE path_loop(_, _, _, _, _)
path_loop(slice, offset, building, path_slice, emits) ==
    IF ~(offset < Len(slice) - 4) THEN [tag |-> "Ok", emits |-> emits]
    ELSE
    LET idx == read_u32(slice, offset)
    IN  IF idx = 0
        THEN path_loop(slice, offset + 4, ~building,
                       after_flip(~building, path_slice), emits)
        ELSE
        LET cs == find_cstring(slice, offset + 4)
        IN  IF cs.tag # "Some" THEN Panic
            ELSE
            LET string == with_prefix(idx, path_slice, cs.string)
            IN  path_loop(slice, cs.offset, building,
                          push(path_slice, string),
                          Append(emits, [string |-> string,
                                         building |-> building,
                                         nfrags |-> Len(path_slice),
                                         at |-> offset,
                                         end |-> cs.offset]))

\* path.offset + path.size, a u32 sum, does not fit in a u32: the carry out
\* of the sum of the two fields (offset_le and size_le are the fields in full
\* width, little-endian)
end_overflows(path) ==
    LET RECURSIVE add_carry(_, _, _)
        add_carry(a, b, c) ==
            IF a = <<>> THEN c
            ELSE add_carry(Tail(a), Tail(b), (Head(a) + Head(b) + c) \div 256)
    IN  add_carry(path.offset_le, path.size_le, 0) > 0

\* the body of `for path in self.paths.iter()` for one record.  When the u32
\* sum overflows, a build with overflow checks panics at the sum and a build
\* without them wraps to an end below the start, where the slice index
\* panics
decode_record(bytes, path) ==
    IF end_overflows(path) \/ ~InRange(bytes, path.offset, path.size)
    THEN Panic
    ELSE LET slice == read_bytes(bytes, path.size, path.offset)
         IN  IF ~InRange(slice, 0, 4) THEN Panic
             ELSE path_loop(slice, 4, read_u32(slice, 0) = 0, <<>>, <<>>)

\* the strings of all records, in order, or the panic of a record
RECURSIVE decode_records(_, _, _)
decode_records(bytes, paths, emits) ==
    IF paths = <<>> THEN [tag |-> "Ok", emits |-> emits]
    ELSE LET r == decode_record(bytes, Head(paths))
         IN  IF r.tag # "Ok" THEN Panic
             ELSE decode_records(bytes, Tail(paths), emits \o r.emits)

\* `map`: files.iter().map(|file| (file.hash, file)).collect(); of two
\* records with one hash the later one stays.  0 = no record with that hash
file_by_hash(files, hash) ==
    LET hits == {i \in 1..Len(files) : files[i].hash = hash}
    IN  IF hits = {} THEN 0 ELSE CHOOSE i \in hits : \A j \in hits : j <= i

\* the key under which an emitted pair is stored
emit_key(fr) == fr.bundle_idx

\* `if !building`: the strings that are looked up in `map`
emitted_always(e) == TRUE

emitted(e) == ~e.building

\* the (path, record) pairs of the emitted strings that have a file record
RECURSIVE emit_pairs(_, _)
emit_pairs(files, emits) ==
    IF emits = <<>> THEN <<>>
    ELSE LET i == file_by_hash(files,
                               murmur_hash64a(Head(emits).string, SEED))
         IN  (IF i = 0 \/ ~emitted(Head(emits)) THEN <<>>
              ELSE <<[path |-> Head(emits).string, file |-> files[i]]>>)
             \o emit_pairs(files, Tail(emits))

SelectSeq2(s, key) ==
    SelectSeq(s, LAMBDA e : emit_key(e.file) = key)

\* `paths`: HashMap<usize, Vec<(PathBuf, &FileRecord)>>, as a function
group_by_key(pairs) ==
    [k \in {emit_key(pairs[i].file) : i \in 1..Len(pairs)} |->
        SelectSeq2(pairs, k)]

\* the closure: Some(map), or the panic of an unwrap / a slice index
build_paths_closure(ix) ==
    LET d == DecompressAll(ix.path_bundle)
    IN  IF d.tag # "Ok" THEN Panic
        ELSE LET r == decode_records(d.bytes, ix.paths, <<>>)
             IN  IF r.tag # "Ok" THEN Panic
                 ELSE [tag |-> "Some",
                       map |-> group_by_key(emit_pairs(ix.files, r.emits))]

(***************************************************************************)
(* The byte strings the program is run on: bundles in the wire layout that *)
(* Bundle::try_from reads, damaged copies of them, and raw payloads.       *)
(***************************************************************************)
RawInputs == UNION {[1..n -> RawByteVals] : n \in 0..MaxRawLen}

\* value with the bytes at offset (0-based) replaced by bs
patch(value, offset, bs) ==
    [k \in 1..Len(value) |->
        IF k > offset /\ k <= offset + Len(bs) THEN bs[k - offset] ELSE value[k]]

\* the wire bytes of the bundle that carries x in seek chunks of scl bytes
wire_bundle(x, scl, crc) ==
    LET chunks == [i \in 1..NumPieces(Len(x), scl) |->
                      OodleCompress(Pieces(x, scl)[i])]
        n      == Len(chunks)
        total  == Len(Flatten(chunks))
    IN  to_le_bytes(Len(x), U32) \o to_le_bytes(total, U32)
        \o to_le_bytes(SEEK_TABLE_STRUCT + U32 * n * (IF crc THEN 2 ELSE 1), U32)
        \o to_le_bytes(Hydra, U32) \o to_le_bytes(1, U32)
        \o to_le_bytes(Len(x), I64) \o to_le_bytes(total, I64)
        \o to_le_bytes(n, U32) \o to_le_bytes(scl, U32)
        \o to_le_bytes(0, I64) \o to_le_bytes(0, I64)
        \o Flatten([i \in 1..n |-> to_le_bytes(Len(chunks[i]), U32)])
        \o Flatten(chunks)
        \o (IF crc THEN Flatten([i \in 1..n |-> to_le_bytes(i, U32)]) ELSE <<>>)

\* bundles whose fields agree with their content
WireBundles ==
    {wire_bundle(x, scl, crc) :
        x \in RawInputs, scl \in {1, BLOCK_LEN}, crc \in BOOLEAN}

\* the bundles Bundle::new is meant to produce: BLOCK_LEN chunks, no CRC table
FormatBundles == {wire_bundle(x, BLOCK_LEN, FALSE) : x \in RawInputs}

\* copies of b cut short
truncations(b) ==
    {SubSeq(b, 1, k) : k \in {0, HEADER_LEN - 1, Min(HEADER_LEN + 1, Len(b)),
                              Len(b) - 1}}

\* copies of b with one header field or one chunk byte changed
field_patches(b) ==
    LET raw_len  == read_i64(b, 20)
        comp_len == read_i64(b, 28)
        n        == read_i32(b, 36)
    IN  {patch(b, 0, to_le_bytes(raw_len + 1, U32)),
         patch(b, 4, to_le_bytes(comp_len + 1, U32)),
         patch(b, 20, to_le_bytes(raw_len + 1, I64)),
         patch(b, 20, to_le_bytes(raw_len - 1, I64)),
         patch(b, 28, to_le_bytes(comp_len + 1, I64)),
         patch(b, 36, to_le_bytes(n + 1, U32)),
         patch(b, 36, to_le_bytes(n - 1, U32)),
         patch(b, 40, to_le_bytes(0, U32)),
         patch(b, 40, to_le_bytes(-1, U32)),
         patch(b, HEADER_LEN + U32 * n, <<0>>),
         patch(b, HEADER_LEN, <<Len(b)>>)}

DamagedBundles ==
    UNION {truncations(b) \cup field_patches(b) \cup {b \o <<0>>} :
               b \in WireBundles}

\* the wire bytes of an index payload; rec is the space given to each path
\* record (its fields, then zero padding)
wire_index(bundles, files, paths, rec, nested) ==
    to_le_bytes(Len(bundles), U32)
    \o Flatten([i \in 1..Len(bundles) |->
           to_le_bytes(Len(bundles[i].path), U32) \o bundles[i].path
           \o to_le_bytes(bundles[i].uncompressed_size, U32)])
    \o to_le_bytes(Len(files), U32)
    \o Flatten([i \in 1..Len(files) |->
           to_le_bytes(files[i].hash, I64) \o to_le_bytes(files[i].bundle_idx, U32)
           \o to_le_bytes(files[i].offset, U32) \o to_le_bytes(files[i].size, U32)])
    \o to_le_bytes(Len(paths), U32)
    \o Flatten([i \in 1..Len(paths) |->
           to_le_bytes(paths[i].hash, I64) \o to_le_bytes(paths[i].offset, U32)
           \o to_le_bytes(paths[i].size, U32)
           \o to_le_bytes(paths[i].recursive_length, U32)
           \o Zeros(rec - (I64 + 3 * U32))])
    \o nested

Tables(recs) == UNION {[1..n -> recs] : n \in 0..MaxRecords}

BundleRecs == {[path |-> p, uncompressed_size |-> 1] : p \in {<<97>>, <<98, 47>>}}
FileRecs == {[hash |-> 7, bundle_idx |-> i, offset |-> 0, size |-> 1] : i \in {0, 1}}
PathRecs == {[hash |-> 9, offset |-> 0, size |-> 4, recursive_length |-> 4]}

\* index payloads with path records of 20 bytes and of 24 bytes
WireIndexes ==
    {wire_index(bs, fs, ps, rec, wire_bundle(<<>>, BLOCK_LEN, FALSE)) :
        bs \in Tables(BundleRecs), fs \in Tables(FileRecs),
        ps \in Tables(PathRecs), rec \in {20, 24}}

\* copies of an index payload cut short, or with a path byte that is not UTF-8
damaged_index(b) ==
    {SubSeq(b, 1, k) : k \in {0, 3, 5, Len(b) - HEADER_LEN, Len(b) - 1}}
    \cup (IF read_u32(b, 0) > 0 THEN {patch(b, 8, <<255>>)} ELSE {})

\* the needle of the two shader filters
shadercache == <<115, 104, 97, 100, 101, 114, 99, 97, 99, 104, 101>>

\* path strings: "d/", "x", "y", "z", "/x", "a", "b"
str_d  == <<100, 47>>
str_x  == <<120>>
str_y  == <<121>>
str_z  == <<122>>
str_sx == <<47, 120>>
str_a  == <<97>>
str_b  == <<98>>

\* one entry of a path dictionary: the wire index k, the string, its NUL
dict_entry(k, str) == to_le_bytes(k, U32) \o str \o <<0>>

\* the wire index 0, which flips building
dict_toggle == to_le_bytes(0, U32)

\* a slice that starts with building = true, defines "d/" as fragment 0 and
\* flips to building = false
dict_base == dict_toggle \o dict_entry(1, str_d) \o dict_toggle

\* the file record of the path string str
file_rec(str, bundle_idx, offset, size) ==
    [hash |-> murmur_hash64a(str, SEED), bundle_idx |-> bundle_idx,
     offset |-> offset, size |-> size]

bundle_rec(str) == [path |-> str, uncompressed_size |-> MaxRawLen]

\* index contents: bundle table, file table, and one dictionary slice per
\* path record
DictNormal ==
    [bundles |-> <<bundle_rec(str_a), bundle_rec(str_b)>>,
     files   |-> <<file_rec(str_d \o str_x, 0, 0, 2),
                   file_rec(str_d \o str_y, 1, 1, 1),
                   file_rec(str_d, 0, 0, 1)>>,
     slices  |-> <<dict_base \o dict_entry(1, str_x),
                   dict_base \o dict_entry(1, str_y) \o dict_entry(9, str_z)>>]

DictShader ==
    [bundles |-> <<bundle_rec(str_a), bundle_rec(shadercache)>>,
     files   |-> <<file_rec(str_d \o shadercache \o str_sx, 0, 0, 1),
                   file_rec(str_d \o str_x, 1, 0, 1),
                   file_rec(str_d \o str_y, 0, 1, 2)>>,
     slices  |-> <<dict_toggle \o dict_entry(1, str_d)
                   \o dict_entry(1, shadercache) \o dict_toggle
                   \o dict_entry(2, str_sx) \o dict_entry(1, str_x)
                   \o dict_entry(1, str_y)>>]

\* the same path string emitted twice
DictDuplicate ==
    [bundles |-> <<bundle_rec(str_a)>>,
     files   |-> <<file_rec(str_d \o str_x, 0, 0, 2)>>,
     slices  |-> <<dict_base \o dict_entry(1, str_x) \o dict_entry(1, str_x)>>]

\* "d/x" and "d//x": two strings, two file records, one file
DictAlias ==
    [bundles |-> <<bundle_rec(str_a)>>,
     files   |-> <<file_rec(str_d \o str_x, 0, 0, 2),
                   file_rec(str_d \o str_sx, 0, 2, 1)>>,
     slices  |-> <<dict_base \o dict_entry(1, str_x) \o dict_entry(1, str_sx)>>]

\* a string without its NUL terminator
DictNoNul ==
    [bundles |-> <<bundle_rec(str_a)>>,
     files   |-> <<file_rec(str_d \o str_x, 0, 0, 2)>>,
     slices  |-> <<dict_base \o dict_entry(1, str_x)
                   \o to_le_bytes(1, U32) \o str_y>>]

\* a string that is not UTF-8
DictBadUtf8 ==
    [bundles |-> <<bundle_rec(str_a)>>,
     files   |-> <<file_rec(str_d \o str_x, 0, 0, 2)>>,
     slices  |-> <<dict_base \o dict_entry(1, str_x)
                   \o dict_entry(1, <<200>>)>>]

\* a file record whose bundle_idx is not in the bundle table
DictBundleIdx ==
    [bundles |-> <<bundle_rec(str_a)>>,
     files   |-> <<file_rec(str_d \o str_x, 1, 0, 2),
                   file_rec(str_d \o str_y, 0, 1, 1)>>,
     slices  |-> <<dict_base \o dict_entry(1, str_x) \o dict_entry(1, str_y)>>]

\* a file record whose slice runs past the end of its bundle
DictFileSlice ==
    [bundles |-> <<bundle_rec(str_a), bundle_rec(str_b)>>,
     files   |-> <<file_rec(str_d \o str_x, 0, 2, 5),
                   file_rec(str_d \o str_y, 0, 1, 1),
                   file_rec(str_z, 1, 1, 1)>>,
     slices  |-> <<dict_base \o dict_entry(1, str_x) \o dict_entry(1, str_y)
                   \o dict_entry(9, str_z)>>]

\* an absolute path ("/x") and a path that climbs out of its base ("../y")
DictEscape ==
    LET str_up_y == <<46, 46, 47, 121>>  \* "../y"
    IN  [bundles |-> <<bundle_rec(str_a)>>,
         files   |-> <<file_rec(str_sx, 0, 0, 2),
                       file_rec(str_up_y, 0, 2, 1)>>,
         slices  |-> <<dict_toggle \o dict_toggle \o dict_entry(1, str_sx),
                       dict_toggle \o dict_toggle
                           \o dict_entry(1, str_up_y)>>]

\* a slice whose first u32 is not 0: index 1 "x", then index 1 "y"
DictEmitFirst ==
    [bundles |-> <<bundle_rec(str_a)>>,
     files   |-> <<file_rec(str_x, 0, 0, 2)>>,
     slices  |-> <<dict_entry(1, str_x) \o dict_entry(1, str_y)>>]

Dicts == {DictNormal, DictShader, DictDuplicate, DictAlias, DictNoNul,
          DictBadUtf8, DictBundleIdx, DictFileSlice, DictEscape,
          DictEmitFirst}

\* the path records of consecutive dictionary slices
path_recs(slices) ==
    [i \in 1..Len(slices) |->
        [hash |-> i, offset |-> Len(Flatten(SubSeq(slices, 1, i - 1))),
         size |-> Len(slices[i]), recursive_length |-> Len(slices[i])]]

\* the index payload of d: its tables, then the bundle of its dictionary
dict_index(d) ==
    wire_index(d.bundles, d.files, path_recs(d.slices), 20,
               wire_bundle(Flatten(d.slices), Len(Flatten(d.slices)), FALSE))

DictIndexes == {dict_index(d) : d \in Dicts}

\* the tokens of generated dictionary slices: 1 is the index 0; 2, 3 and 4
\* are the entries (1, "x"), (2, "y") and (3, "d/")
Tokens == 1..4

token_index(t) == t - 1

token_string(t) == IF t = 2 THEN str_x ELSE IF t = 3 THEN str_y ELSE str_d

token_bytes(t) ==
    IF t = 1 THEN dict_toggle ELSE dict_entry(token_index(t), token_string(t))

\* the token sequences, and the number that names each of them
Programs == UNION {[1..n -> Tokens] : n \in 0..MaxTokens}

RECURSIVE prog_id(_)
prog_id(p) ==
    IF p = <<>> THEN 0
    ELSE Head(p) + (Cardinality(Tokens) + 1) * prog_id(Tail(p))

RECURSIVE program(_)
program(n) ==
    IF n = 0 THEN <<>>
    ELSE <<n % (Cardinality(Tokens) + 1)>>
         \o program(n \div (Cardinality(Tokens) + 1))

\* the slice of a program: a first u32 of 0, then its tokens
prog_slice(p) == dict_toggle \o Flatten([i \in 1..Len(p) |-> token_bytes(p[i])])

\* the index payload of a program: one path record for its slice, whose
\* hash field (which build_paths does not read) holds the program's number
prog_index(p) ==
    wire_index(<<>>, <<>>,
               <<[hash |-> prog_id(p), offset |-> 0, size |-> Len(prog_slice(p)),
                  recursive_length |-> Len(prog_slice(p))]>>,
               20, wire_bundle(prog_slice(p), Len(prog_slice(p)), FALSE))

ProgIndexes == {prog_index(p) : p \in Programs}

\* an index whose path record has offset FF FF FF FF and size 8, with a
\* dictionary of 8 bytes
OverflowIndex ==
    wire_index(<<>>, <<>>,
               <<[hash |-> 0, offset |-> -1, size |-> 2 * U32,
                  recursive_length |-> 2 * U32]>>,
               20, wire_bundle(dict_toggle \o dict_toggle, 2 * U32, FALSE))

IndexInputs ==
    WireIndexes \cup UNION {damaged_index(b) : b \in WireIndexes}
    \cup DictIndexes \cup ProgIndexes \cup {OverflowIndex}

BundleInputs == WireBundles \cup DamagedBundles \cup RawInputs

Inputs == BundleInputs \cup IndexInputs

(***************************************************************************)
(* The caller: it parses the input or compresses it, and goes on with      *)
(* decompress, Bundle::new and to_vec on what it holds.                    *)
(***************************************************************************)
Threads == 1..MaxThreads

\* an input side without the directory Bundles2
NoDisk == [dir |-> FALSE, files |-> <<>>]

\* an output side with nothing but the root directory
EmptyFs == [files |-> <<>>, dirs |-> {<<>>}]

Init ==
    /\ input \in Inputs
    /\ pc = "start"
    /\ parsed = None
    /\ bundle = None
    /\ raw = None
    /\ newRes = None
    /\ buffer = <<>>
    /\ pending = {}
    /\ writes = <<>>
    /\ failed = {}
    /\ decRes = None
    /\ depth = 0
    /\ serRes = None
    /\ index = None
    /\ cache = None
    /\ once = "incomplete"
    /\ tpc = [t \in Threads |-> "idle"]
    /\ tres = [t \in Threads |-> None]
    /\ shaders = FALSE
    /\ disk = NoDisk
    /\ outfs = EmptyFs
    /\ btask = <<>>
    /\ ftask = <<>>
    /\ extRes = None

decVars == <<buffer, pending, writes, failed, decRes>>

\* Bundle::try_from(input) / Bundle::from_slice(input)
Parse ==
    /\ pc = "start"
    /\ input \in BundleInputs
    /\ parsed' = BundleTryFrom(input)
    /\ IF parsed'.tag = "Ok"
       THEN pc' = "parsed" /\ bundle' = parsed'.bundle
       ELSE pc' = "parse_panic" /\ bundle' = bundle
    /\ UNCHANGED <<input, raw, newRes, decVars, depth, serRes, index>>
    /\ UNCHANGED <<thrVars, extVars>>

\* Bundle::new(data) on the raw input or on the bytes decompress returned
New ==
    /\ \/ pc = "start" /\ Len(input) <= MaxRawLen /\ raw' = input
       \/ pc = "decompressed" /\ raw' = decRes.bytes
    /\ \E oodleErr \in SUBSET (1..NumPieces(Len(raw'), BLOCK_LEN)),
          base \in HeapAddrs :
          newRes' = [res |-> BundleNew(raw', oodleErr, base),
                     oodleErr |-> oodleErr]
    /\ IF newRes'.res.tag = "Ok"
       THEN pc' = "built" /\ bundle' = newRes'.res.bundle
       ELSE pc' = "new_err" /\ bundle' = bundle
    /\ UNCHANGED <<input, parsed, decVars, depth, serRes, index>>
    /\ UNCHANGED <<thrVars, extVars>>

\* _decompress up to the parallel loop: allocate the buffer, split it
StartDecompress ==
    /\ pc \in {"parsed", "built"}
    /\ alloc_len(bundle) < Huge
    /\ IF alloc_len(bundle) < 0 \/ block_size(bundle) = 0
       THEN /\ pc' = "decompress_panic"
            /\ decRes' = Panic
            /\ UNCHANGED <<buffer, pending, writes>>
       ELSE /\ pc' = "decompressing"
            /\ decRes' = None
            /\ buffer' = Zeros(alloc_len(bundle))
            /\ pending' = zip_tasks(bundle)
            /\ writes' = [i \in zip_tasks(bundle) |-> {}]
    /\ failed' = {}
    /\ UNCHANGED <<input, parsed, bundle, raw, newRes, depth, serRes, index>>
    /\ UNCHANGED <<thrVars, extVars>>

\* the closure of the parallel loop, run for chunk i by some worker
DecompressChunk(i) ==
    /\ pc = "decompressing"
    /\ i \in pending
    /\ LET d   == dest(i, block_size(bundle), alloc_len(bundle))
           res == OodleDecompress(bundle.chunks[i + 1], d.hi - d.lo)
       IN  IF res.tag = "Ok"
           THEN /\ buffer' = store(buffer, d.lo, res.bytes)
                /\ writes' = [writes EXCEPT ![i] = (d.lo + 1)..d.hi]
                /\ failed' = failed
           ELSE /\ failed' = failed \cup {i}
                /\ UNCHANGED <<buffer, writes>>
    /\ pending' = pending \ {i}
    /\ UNCHANGED <<input, pc, parsed, bundle, raw, newRes, decRes, depth,
                   serRes, index>>
    /\ UNCHANGED <<thrVars, extVars>>

\* the parallel loop ends: with every task done, or with the panic of a
\* task's unwrap resumed in the caller
FinishDecompress ==
    /\ pc = "decompressing"
    /\ pending = {} \/ failed # {}
    /\ IF failed = {}
       THEN pc' = "decompressed" /\ decRes' = [tag |-> "Ok", bytes |-> buffer]
       ELSE pc' = "decompress_panic" /\ decRes' = Panic
    /\ UNCHANGED <<input, parsed, bundle, raw, newRes, buffer, pending, writes,
                   failed, depth, serRes, index>>
    /\ UNCHANGED <<thrVars, extVars>>

\* Bundle::to_vec / Vec::<u8>::from(bundle): the first frame
ToVec ==
    /\ pc \in {"parsed", "built"}
    /\ pc' = "to_vec"
    /\ depth' = 1
    /\ UNCHANGED <<input, parsed, bundle, raw, newRes, decVars, serRes, index>>
    /\ UNCHANGED <<thrVars, extVars>>

\* From::from calls value.into(), which is From::from again: one more frame
\* (a build that turns the call into a jump spins here without pushing one,
\* which is a stuttering step)
IntoCall ==
    /\ pc = "to_vec"
    /\ depth < MaxStack
    /\ depth' = depth + 1
    /\ UNCHANGED <<input, pc, parsed, bundle, raw, newRes, decVars, serRes,
                   index>>
    /\ UNCHANGED <<thrVars, extVars>>

\* no frame is left on the thread's stack: the process is aborted
StackOverflow ==
    /\ pc = "to_vec"
    /\ depth = MaxStack
    /\ pc' = "aborted"
    /\ serRes' = [tag |-> "StackOverflow"]
    /\ UNCHANGED <<input, parsed, bundle, raw, newRes, decVars, depth, index>>
    /\ UNCHANGED <<thrVars, extVars>>

\* Index::try_from(input)
ParseIndex ==
    /\ pc = "start"
    /\ input \in IndexInputs
    /\ index' = IndexTryFrom(input)
    /\ pc' = IF index'.tag = "Ok" THEN "index_parsed"
             ELSE IF index'.tag = "Err" THEN "index_err" ELSE "index_panic"
    /\ cache' = None
    /\ once' = "incomplete"
    /\ UNCHANGED <<input, parsed, bundle, raw, newRes, decVars, depth, serRes>>
    /\ UNCHANGED <<tpc, tres, extVars>>

oldVars == <<input, parsed, bundle, raw, newRes, decVars, depth, serRes, index>>

\* whether a caller of get_or_init that finds the cell in this state runs
\* the closure
once_may_init_racy(state) == state # "complete"

once_may_init(state) == state = "incomplete"

\* a thread calls Index::build_paths (directly or through iter_bundles)
CallBuildPaths(t) ==
    /\ pc = "index_parsed"
    /\ tpc[t] = "idle"
    /\ tpc' = [tpc EXCEPT ![t] = "calling"]
    /\ UNCHANGED <<pc, oldVars, cache, once, tres, extVars>>

\* self.cache.get_or_init: the value if the cell is set; the closure if no
\* thread is running it; otherwise the thread waits
GetOrInit(t) ==
    /\ tpc[t] = "calling"
    /\ IF cache # None
       THEN /\ tpc' = [tpc EXCEPT ![t] = "done"]
            /\ tres' = [tres EXCEPT ![t] = cache]
            /\ once' = once
       ELSE /\ once_may_init(once)
            /\ once' = "running"
            /\ tpc' = [tpc EXCEPT ![t] = "init"]
            /\ tres' = tres
    /\ UNCHANGED <<pc, oldVars, cache, extVars>>

\* the closure ends: the cell takes the new map, which is allocated by this
\* thread (arc), or the panic unwinds through get_or_init, which leaves the
\* cell empty and lets the next caller run the closure
RunInit(t) ==
    /\ tpc[t] = "init"
    /\ LET r == build_paths_closure(index.v)
       IN  IF r.tag = "Some"
           THEN /\ cache' = [tag |-> "Some", map |-> r.map, arc |-> t]
                /\ once' = "complete"
                /\ tpc' = [tpc EXCEPT ![t] = "done"]
                /\ tres' = [tres EXCEPT ![t] = cache']
           ELSE /\ cache' = cache
                /\ once' = "incomplete"
                /\ tpc' = [tpc EXCEPT ![t] = "panicked"]
                /\ tres' = [tres EXCEPT ![t] = Panic]
    /\ UNCHANGED <<pc, oldVars, extVars>>

(***************************************************************************)
(* index.rs: Index::extract.  Paths are byte strings; a location of the    *)
(* file system is the sequence of its components from the root.            *)
(***************************************************************************)
\* '/' and '.'
SEP == 47
DOT == 46

\* the pieces of p between separators, empty pieces dropped
RECURSIVE split(_, _, _)
split(p, cur, acc) ==
    IF p = <<>> THEN (IF cur = <<>> THEN acc ELSE Append(acc, cur))
    ELSE IF Head(p) = SEP
    THEN split(Tail(p), <<>>, IF cur = <<>> THEN acc ELSE Append(acc, cur))
    ELSE split(Tail(p), Append(cur, Head(p)), acc)

\* Path::components, without the root and the "." components (which name no
\* directory and hold no needle)
components(p) == SelectSeq(split(p, <<>>, <<>>), LAMBDA c : c # <<DOT>>)

\* str::contains
contains(str, needle) ==
    \E i \in 0..(Len(str) - Len(needle)) :
        SubSeq(str, i + 1, i + Len(needle)) = needle

\* the file filter: some component of the path contains the needle
is_shader_first(path) ==
    /\ components(path) # <<>>
    /\ contains(components(path)[1], shadercache)

is_shader(path) ==
    \E i \in 1..Len(components(path)) :
        contains(components(path)[i], shadercache)

\* Path::join on a base location: an absolute path replaces the base
join(base, p) ==
    IF p # <<>> /\ p[1] = SEP THEN components(p) ELSE base \o components(p)

\* the location the operating system resolves a component list to
RECURSIVE resolve(_, _)
resolve(comps, at) ==
    IF comps = <<>> THEN at
    ELSE IF Head(comps) = <<DOT, DOT>>
    THEN resolve(Tail(comps),
                 IF at = <<>> THEN at ELSE SubSeq(at, 1, Len(at) - 1))
    ELSE resolve(Tail(comps), Append(at, Head(comps)))

\* the `out` argument: the directory "o"
OutDir == <<<<111>>>>

\* out_dir.join(path), as the location File::create opens
file_path(path) == resolve(join(OutDir, path), <<>>)

\* the locations create_dir_all(file_path.parent()) makes directories of
parent_dirs(path) ==
    LET comps == join(OutDir, path)
    IN  {resolve(SubSeq(comps, 1, n), <<>>) : n \in 0..(Len(comps) - 1)}

\* ".bundle.bin"
bundle_bin == <<46, 98, 117, 110, 100, 108, 101, 46, 98, 105, 110>>

\* the name of a bundle's file in <input>/Bundles2
bundlebin_path(rec) == rec.path \o bundle_bin

Missing == [tag |-> "Missing"]

\* what the bundle closure gets from the file of the bundle: the skip of a
\* missing file, the decompressed bytes, or the panic of an unwrap
open_bundle_unwrap(dsk, name) ==
    IF dsk[name] = Missing THEN Panic
    ELSE LET b == BundleTryFrom(dsk[name].bytes)
         IN  IF b.tag # "Ok" THEN Panic ELSE DecompressAll(b.bundle)

open_bundle(dsk, name) ==
    IF dsk[name] = Missing THEN Missing
    ELSE LET b == BundleTryFrom(dsk[name].bytes)
         IN  IF b.tag # "Ok" THEN Panic ELSE DecompressAll(b.bundle)

\* bytes.iter().sum()
bundle_sum_first(bytes) == IF bytes = <<>> THEN 0 ELSE Head(bytes)

bundle_sum(bytes) == SumSeq(bytes)

\* the file after `bytes` were written at its start through a fresh handle
write_at_start(old, bytes) ==
    bytes \o SubSeq(old, Len(bytes) + 1, Len(old))

\* the content of the bundle files on the input side
bundle_content(path) == IF path = str_a THEN <<1, 0, 1>> ELSE <<0, 1>>

good_file(path) ==
    [tag |-> "File", bytes |-> wire_bundle(bundle_content(path), BLOCK_LEN, FALSE)]

\* a bundle file that lost its last byte
cut_file(path) ==
    [tag |-> "File",
     bytes |-> SubSeq(good_file(path).bytes, 1, Len(good_file(path).bytes) - 1)]

\* the states of <input>/Bundles2 for an index: no such directory, or per
\* bundle a good file, a damaged file or no file
Disks(ix) ==
    {NoDisk} \cup
    {[dir |-> TRUE,
      files |->
        [name \in {bundlebin_path(ix.bundles[i]) : i \in 1..Len(ix.bundles)} |->
         LET i == CHOOSE i \in 1..Len(ix.bundles) :
                      bundlebin_path(ix.bundles[i]) = name
         IN  IF state[i] = "good" THEN good_file(ix.bundles[i].path)
             ELSE IF state[i] = "cut" THEN cut_file(ix.bundles[i].path)
             ELSE Missing]] :
        state \in [1..Len(ix.bundles) -> {"good", "cut", "missing"}]}

\* the pairs of the cached map under key k
pairs(k) == cache.map[k]

\* extract is called with the iterator of iter_bundles, by a caller that
\* holds the map; no other thread is inside build_paths
ExtractCall ==
    /\ pc = "index_parsed"
    /\ cache # None
    /\ \A t \in Threads : tpc[t] \in {"idle", "done", "panicked"}
    /\ input \in DictIndexes
    /\ \E sh \in BOOLEAN, dsk \in Disks(index.v) :
          /\ shaders' = sh
          /\ disk' = dsk
          /\ IF ~dsk.dir
             THEN /\ pc' = "extracted"
                  /\ extRes' = Panic
                  /\ UNCHANGED <<btask, ftask>>
             ELSE /\ pc' = "extracting"
                  /\ extRes' = None
                  /\ btask' = [k \in DOMAIN cache.map |->
                                  [st |-> "ready", data |-> <<>>, total |-> 0]]
                  /\ ftask' = [k \in DOMAIN cache.map |->
                                  [j \in 1..Len(pairs(k)) |->
                                      [st |-> "wait", bytes |-> 0]]]
    /\ UNCHANGED <<oldVars, thrVars, outfs>>

\* the outer closures for the item of key k: bundles[idx].clone(), the bundle
\* filter, and the bundle closure up to the start of its file tasks
BundleStart(k) ==
    /\ pc = "extracting"
    /\ btask[k].st = "ready"
    /\ IF ~(k < Len(index.v.bundles))
       THEN /\ btask' = [btask EXCEPT ![k].st = "panicked"]
            /\ ftask' = ftask
       ELSE LET rec == index.v.bundles[k + 1]
                got == open_bundle(disk.files, bundlebin_path(rec))
            IN  IF ~shaders /\ contains(rec.path, shadercache)
                THEN /\ btask' = [btask EXCEPT ![k].st = "skipped"]
                     /\ ftask' = ftask
                ELSE IF got = Missing
                THEN /\ btask' = [btask EXCEPT ![k].st = "missing"]
                     /\ ftask' = ftask
                ELSE IF got.tag # "Ok"
                THEN /\ btask' = [btask EXCEPT ![k].st = "panicked"]
                     /\ ftask' = ftask
                ELSE /\ btask' = [btask EXCEPT ![k].st = "run",
                                               ![k].data = got.bytes]
                     /\ ftask' = [ftask EXCEPT ![k] =
                           [j \in 1..Len(pairs(k)) |->
                               [st |-> IF ~shaders /\ is_shader(pairs(k)[j].path)
                                       THEN "filtered" ELSE "ready",
                                bytes |-> 0]]]
    /\ UNCHANGED <<pc, oldVars, thrVars, shaders, disk, outfs, extRes>>

\* a file task up to File::create: the slice, the parent directories, the
\* file created or truncated
FileCreate(k, j) ==
    /\ pc = "extracting"
    /\ k \in DOMAIN ftask
    /\ j \in DOMAIN ftask[k]
    /\ ftask[k][j].st = "ready"
    /\ LET info == pairs(k)[j].file
           path == pairs(k)[j].path
       IN  IF \/ ~InRange(btask[k].data, info.offset, info.size)
              \/ parent_dirs(path) \cap DOMAIN outfs.files # {}
              \/ file_path(path) \in outfs.dirs
           THEN /\ ftask' = [ftask EXCEPT ![k][j].st = "panicked"]
                /\ outfs' = outfs
           ELSE /\ ftask' = [ftask EXCEPT ![k][j].st = "created"]
                /\ outfs' =
                     [files |-> [f \in DOMAIN outfs.files \cup {file_path(path)}
                                     |-> IF f = file_path(path) THEN <<>>
                                         ELSE outfs.files[f]],
                      dirs |-> outfs.dirs \cup parent_dirs(path)]
    /\ UNCHANGED <<pc, oldVars, thrVars, shaders, disk, btask, extRes>>

\* io::copy of the slice into the file, and the task's result
FileWrite(k, j) ==
    /\ pc = "extracting"
    /\ k \in DOMAIN ftask
    /\ j \in DOMAIN ftask[k]
    /\ ftask[k][j].st = "created"
    /\ LET info  == pairs(k)[j].file
           slice == read_bytes(btask[k].data, info.size, info.offset)
           f     == file_path(pairs(k)[j].path)
       IN  /\ outfs' = [outfs EXCEPT !.files[f] = write_at_start(@, slice)]
           /\ ftask' = [ftask EXCEPT ![k][j] =
                            [st |-> "done", bytes |-> Len(slice)]]
    /\ UNCHANGED <<pc, oldVars, thrVars, shaders, disk, btask, extRes>>

\* a file task that had not started when a task of its bundle panicked, and
\* that the worker unwinding past it never runs
FileAbandon(k, j) ==
    /\ pc = "extracting"
    /\ k \in DOMAIN ftask
    /\ j \in DOMAIN ftask[k]
    /\ ftask[k][j].st = "ready"
    /\ \E j2 \in DOMAIN ftask[k] : ftask[k][j2].st = "panicked"
    /\ ftask' = [ftask EXCEPT ![k][j].st = "abandoned"]
    /\ UNCHANGED <<pc, oldVars, thrVars, shaders, disk, outfs, btask, extRes>>

\* the file tasks of bundle k are over: their sum, or the panic of one of
\* them resumed in the bundle closure
BundleFinish(k) ==
    /\ pc = "extracting"
    /\ btask[k].st = "run"
    /\ \A j \in DOMAIN ftask[k] :
           ftask[k][j].st \in {"filtered", "done", "panicked", "abandoned"}
    /\ IF \E j \in DOMAIN ftask[k] : ftask[k][j].st = "panicked"
       THEN btask' = [btask EXCEPT ![k].st = "panicked"]
       ELSE btask' = [btask EXCEPT
                ![k].st = "done",
                ![k].total = bundle_sum(
                    [n \in 1..Len(SelectSeq(ftask[k],
                                            LAMBDA x : x.st = "done")) |->
                        SelectSeq(ftask[k], LAMBDA x : x.st = "done")[n].bytes])]
    /\ UNCHANGED <<pc, oldVars, thrVars, shaders, disk, outfs, ftask, extRes>>

\* a bundle item that had not started when a bundle closure panicked, and
\* that the worker unwinding past it never runs
BundleAbandon(k) ==
    /\ pc = "extracting"
    /\ btask[k].st = "ready"
    /\ \E k2 \in DOMAIN btask : btask[k2].st = "panicked"
    /\ btask' = [btask EXCEPT ![k].st = "abandoned"]
    /\ UNCHANGED <<pc, oldVars, thrVars, shaders, disk, outfs, ftask, extRes>>

\* the keys of the bundle items in some order
RECURSIVE keys_seq(_)
keys_seq(ks) ==
    IF ks = {} THEN <<>>
    ELSE LET k == CHOOSE k \in ks : TRUE IN <<k>> \o keys_seq(ks \ {k})

\* the outer sum, or the panic of a bundle closure resumed in extract
ExtractFinish ==
    /\ pc = "extracting"
    /\ \A k \in DOMAIN btask :
           btask[k].st \in {"skipped", "missing", "done", "panicked",
                            "abandoned"}
    /\ pc' = "extracted"
    /\ extRes' = IF \E k \in DOMAIN btask : btask[k].st = "panicked"
                 THEN Panic
                 ELSE [tag |-> "Ok",
                       total |-> SumSeq([n \in 1..Len(keys_seq(DOMAIN btask)) |->
                                   btask[keys_seq(DOMAIN btask)[n]].total])]
    /\ UNCHANGED <<oldVars, thrVars, shaders, disk, outfs, btask, ftask>>

Next ==
    \/ Parse
    \/ ParseIndex
    \/ New
    \/ StartDecompress
    \/ \E i \in pending : DecompressChunk(i)
    \/ FinishDecompress
    \/ ToVec
    \/ IntoCall
    \/ StackOverflow
    \/ \E t \in Threads : CallBuildPaths(t)
    \/ \E t \in Threads : GetOrInit(t)
    \/ \E t \in Threads : RunInit(t)
    \/ ExtractCall
    \/ \E k \in DOMAIN btask : BundleStart(k)
    \/ \E k \in DOMAIN ftask : \E j \in DOMAIN ftask[k] : FileCreate(k, j)
    \/ \E k \in DOMAIN ftask : \E j \in DOMAIN ftask[k] : FileWrite(k, j)
    \/ \E k \in DOMAIN ftask : \E j \in DOMAIN ftask[k] : FileAbandon(k, j)
    \/ \E k \in DOMAIN btask : BundleFinish(k)
    \/ \E k \in DOMAIN btask : BundleAbandon(k)
    \/ ExtractFinish

Spec == Init /\ [][Next]_vars

(***************************************************************************)
(* Properties                                                              *)
(***************************************************************************)

\* C1: for every valid bundle byte string b, parsing b and serializing the
\* parsed Bundle (to_vec / into) yields exactly b: once the conversion of
\* parse(b) has been called it ends, and it ends with the bytes b.
C1_SerializeParse ==
    (input \in WireBundles /\ raw = None /\ pc = "aborted")
        => serRes = Ok(input)

\* C2: for every raw byte string x, with Oodle compressing every chunk,
\* Bundle::new(x) succeeds, and decompressing the bundle it returns ends
\* with exactly x.
C2_DecompressNew ==
    (parsed = None /\ newRes # None /\ newRes.oodleErr = {})
        => /\ newRes.res.tag = "Ok"
           /\ pc \in {"decompressed", "decompress_panic"} => decRes = Ok(raw)

\* C3: for a bundle b of this format, parse -> decompress -> Bundle::new ->
\* to_vec ends with a byte string equal to b.
C3_Pipeline ==
    (/\ input \in FormatBundles
     /\ parsed # None /\ newRes # None /\ newRes.oodleErr = {}
     /\ pc \in {"new_err", "aborted"})
        => serRes = Ok(input)

\* C4: whenever decompress returns a byte vector, its length is the parsed
\* seek table's totalRawLen, however many chunks the bundle holds.
C4_DecompressLen ==
    decRes.tag = "Ok" => Len(decRes.bytes) = bundle.seek_table.totalRawLen

\* a bundle was decompressed that has at least two chunks, fewer than the
\* pieces of its output buffer
C4_Witness ==
    /\ pc = "decompressed"
    /\ Len(bundle.chunks) >= 2
    /\ Len(bundle.chunks) < NumPieces(alloc_len(bundle), block_size(bundle))
    /\ bundle.uncompressed_size # bundle.seek_table.totalRawLen

\* C5: parsing a byte slice in which a declared length runs past the end of
\* the input (here: a header shorter than 60 bytes, and any other overrun)
\* returns an error value; the parse never aborts.
C5_ParseError ==
    parsed # None
        => /\ parsed.tag \in {"Ok", "Err"}
           /\ Len(input) < HEADER_LEN => parsed.tag = "Err"

\* the data-model invariants of a Bundle
DataModelInv(b) ==
    /\ b.seek_table.numSeekChunks = Len(b.chunks)
    /\ Len(b.chunks) = Len(b.seek_chunk_comp_lens)
    /\ Len(Flatten(b.chunks)) = b.compressed_size
    /\ b.compressed_size = b.seek_table.totalCompLen
    /\ b.raw_crcs # None => Len(b.raw_crcs.v) = b.seek_table.numSeekChunks

\* C6: every Bundle that parse returns satisfies the data-model invariants
\* (chunk counts agree, the chunk lengths sum to compressed_size and to
\* totalCompLen, a CRC table has one entry per chunk).
C6_ParsedInvariants ==
    parsed.tag = "Ok" => DataModelInv(parsed.bundle)

\* C7: if Oodle fails on a chunk during decompression, decompress returns an
\* error value that names a failing chunk, and no byte vector.
C7_DecompressError ==
    (pc \in {"decompressed", "decompress_panic"} /\ failed # {})
        => decRes.tag = "Err" /\ decRes.chunk_index \in failed

\* C8: the task of chunk i writes only output bytes
\* [i*seekChunkLen, min((i+1)*seekChunkLen, totalRawLen)) (seekChunkLen as the
\* usize the code uses), no two tasks write the same byte, and the buffer
\* decompress returns is the one the tasks produce when run in chunk order,
\* whatever order they ran in.
C8_DisjointWrites ==
    pc \in {"decompressing", "decompressed"}
        => /\ \A i \in DOMAIN writes :
                 writes[i] \subseteq
                    (i * block_size(bundle) + 1) ..
                    Min((i + 1) * block_size(bundle),
                        bundle.seek_table.totalRawLen)
           /\ \A i, j \in DOMAIN writes :
                 i # j => writes[i] \cap writes[j] = {}
           /\ pc = "decompressed" =>
                 decRes.bytes = decode_in_order(bundle, 0,
                                    Zeros(bundle.seek_table.totalRawLen))

\* the task of chunk 1 has written its bytes while chunk 0 is still to run
C8_Witness ==
    /\ pc = "decompressing"
    /\ pending = {0}
    /\ failed = {}
    /\ 1 \in DOMAIN writes
    /\ writes[1] # {}

\* C9: every Index that parse returns has bundle_idx < bundle_count in every
\* file record (the parse checks the bundle_idx ranges).
C9_BundleIdxRange ==
    index.tag = "Ok"
        => \A i \in 1..Len(index.v.files) :
               index.v.files[i].bundle_idx < Len(index.v.bundles)

\* the bytes of the bundle table of a parsed index
bundle_table_len(ix) ==
    SumSeq([i \in 1..Len(ix.bundles) |-> 8 + Len(ix.bundles[i].path)])

\* C10 as stated: the parse consumes 20 bytes per FileRecord and 24 bytes per
\* PathRecord, so the nested bundle starts at
\* 4 + sum(8 + path_len) + 4 + 20*file_count + 4 + 24*path_count.
C10_NestedOffset24 ==
    index.tag = "Ok"
        => index.v.path_bundle_offset =
               4 + bundle_table_len(index.v) + 4 + 20 * Len(index.v.files)
               + 4 + 24 * Len(index.v.paths)

\* C10 amended: the parse consumes 20 bytes per FileRecord and 20 bytes per
\* PathRecord, so the nested bundle starts at
\* 4 + sum(8 + path_len) + 4 + 20*file_count + 4 + 20*path_count.
C10_NestedOffset20 ==
    index.tag = "Ok"
        => index.v.path_bundle_offset =
               4 + bundle_table_len(index.v) + 4 + 20 * Len(index.v.files)
               + 4 + 20 * Len(index.v.paths)

\* an index with bundle, file and path records was parsed
C10_Witness ==
    /\ pc = "index_parsed"
    /\ Len(index.v.bundles) >= 1
    /\ Len(index.v.files) >= 1
    /\ Len(index.v.paths) >= 2

\* the strings the dictionary of a parsed index decodes to, with their modes
decoded_strings(ix) ==
    decode_records(DecompressAll(ix.path_bundle).bytes, ix.paths, <<>>).emits

\* C11: every pair (p, f) in the extraction map has
\* murmurhash64a(p, 0x1337b33f) = f.hash, f is a file record of the index, the
\* pair is stored under the key f.bundle_idx, and p is the string of an
\* entry that was decoded while building = false.
C11_MapEntries ==
    cache # None
        => LET ds == decoded_strings(index.v)
           IN  \A k \in DOMAIN cache.map : \A j \in 1..Len(cache.map[k]) :
                   LET e == cache.map[k][j]
                   IN  /\ murmur_hash64a(e.path, SEED) = e.file.hash
                       /\ \E i \in 1..Len(index.v.files) :
                              index.v.files[i] = e.file
                       /\ k = e.file.bundle_idx
                       /\ \E n \in 1..Len(ds) :
                              ds[n].string = e.path /\ ~ds[n].building

\* the map is built from a dictionary in which a string defined while
\* building = true ("d/") has a file record of its own
C11_Witness ==
    /\ cache # None
    /\ input = dict_index(DictNormal)
    /\ DOMAIN cache.map = {0, 1}

\* C12: a dictionary string that is not UTF-8 or has no NUL terminator ends
\* the decoding with an error value: no call of build_paths on such an index
\* ends in a panic.
C12_BadPathEncoding ==
    input \in {dict_index(DictNoNul), dict_index(DictBadUtf8)}
        => \A t \in Threads : tpc[t] # "panicked"

\* C13: under every interleaving of build_paths calls the cache is empty
\* right after the parse, goes from empty to set at most once, is never
\* replaced or changed once set, and every call that returned holds that one
\* map (the same allocation).
C13_CacheOnce ==
    [][/\ pc' = "index_parsed" /\ pc = "start" => cache' = None
       /\ cache # None => cache' = cache
       /\ \A t \in Threads :
              tres'[t] # None /\ tres'[t] # Panic => tres'[t] = cache'
       /\ \A t, u \in Threads :
              (tres'[t] # None /\ tres'[t] # Panic
               /\ tres'[u] # None /\ tres'[u] # Panic) => tres'[t] = tres'[u]
      ]_vars

\* every thread has called build_paths and returned; the cell was set by one
\* of them
C13_Witness ==
    /\ \A t \in Threads : tpc[t] = "done"
    /\ cache # None
    /\ DOMAIN cache.map # {}

\* C14: every call of build_paths ends with the map: no call ends otherwise.
C14_EveryCallGetsMap ==
    \A t \in Threads : tres[t] # None => tres[t].tag = "Some"

\* the file tasks that have created their file
started_tasks ==
    {<<k, j>> \in UNION {{k} \X DOMAIN ftask[k] : k \in DOMAIN ftask} :
        ftask[k][j].st \in {"created", "done"}}

\* C15: with shaders = false no file is written whose output path contains
\* "shadercache": no file exists on the output side at a location with such
\* a component, and no file task runs for a path that contains it or for a
\* bundle whose path contains it.
C15_NoShaderOutput ==
    ~shaders
        => /\ \A f \in DOMAIN outfs.files : \A i \in 1..Len(f) :
                  ~contains(f[i], shadercache)
           /\ \A t \in started_tasks :
                  /\ ~contains(pairs(t[1])[t[2]].path, shadercache)
                  /\ ~contains(index.v.bundles[t[1] + 1].path, shadercache)

\* extract has returned with shaders = false on an index that has a shader
\* bundle and, in another bundle, a path with a shader component next to a
\* path without; the latter was written
C15_Witness ==
    /\ pc = "extracted"
    /\ ~shaders
    /\ input = dict_index(DictShader)
    /\ extRes.tag = "Ok"
    /\ extRes.total > 0
    /\ DOMAIN outfs.files # {}

\* bundle item k names a bundle of the table whose file is not in Bundles2
file_missing(k) ==
    /\ k < Len(index.v.bundles)
    /\ disk.files[bundlebin_path(index.v.bundles[k + 1])] = Missing

\* C16: a bundle whose .bundle.bin file is missing, once its task has run
\* past the bundle filter, has contributed 0 bytes and none of its file
\* tasks has started (so it has written no file and created no directory:
\* if every bundle is missing the output side is untouched); extract still
\* returns, with every other bundle that did not fail run to its end.
C16_MissingBundle ==
    pc \in {"extracting", "extracted"} /\ disk.dir
        => /\ \A k \in DOMAIN btask :
                  (file_missing(k)
                   /\ btask[k].st \notin {"ready", "skipped", "abandoned"})
                      => /\ btask[k].st = "missing"
                         /\ btask[k].total = 0
                         /\ \A j \in DOMAIN ftask[k] : ftask[k][j].st = "wait"
           /\ (\A k \in DOMAIN btask : file_missing(k)) => outfs = EmptyFs
           /\ (pc = "extracted"
               /\ \A k \in DOMAIN btask : btask[k].st # "panicked")
                  => /\ extRes.tag = "Ok"
                     /\ \A k \in DOMAIN btask :
                            btask[k].st \in {"missing", "skipped", "done"}

\* extract has returned; one bundle's file was missing, another bundle's
\* files were written
C16_Witness ==
    /\ pc = "extracted"
    /\ extRes.tag = "Ok"
    /\ \E k \in DOMAIN btask : file_missing(k) /\ btask[k].st = "missing"
    /\ \E k \in DOMAIN btask : btask[k].st = "done" /\ btask[k].total > 0

\* C17: a failure inside one bundle's work stays inside that bundle: extract
\* still returns its sum, and no sibling bundle is left unrun.
C17_FailureIsolated ==
    pc = "extracted" /\ disk.dir
        => /\ extRes.tag = "Ok"
           /\ \A k \in DOMAIN btask : btask[k].st # "abandoned"

\* the file tasks that have written their file
done_tasks ==
    {<<k, j>> \in UNION {{k} \X DOMAIN ftask[k] : k \in DOMAIN ftask} :
        ftask[k][j].st = "done"}

\* C18: after extract has returned, the file at <output>/<path> of every
\* pair (path, f) that was written has length f.size and holds the bytes
\* [f.offset, f.offset + f.size) of the decompressed bundle f.bundle_idx.
C18_FileContent ==
    pc = "extracted" /\ extRes.tag = "Ok"
        => \A t \in done_tasks :
               LET e == pairs(t[1])[t[2]]
                   f == outfs.files[file_path(e.path)]
               IN  /\ Len(f) = e.file.size
                   /\ f = read_bytes(btask[e.file.bundle_idx].data,
                                     e.file.size, e.file.offset)

\* the sum of f.size over a set of file tasks
RECURSIVE size_sum(_)
size_sum(ts) ==
    IF ts = {} THEN 0
    ELSE LET t == CHOOSE t \in ts : TRUE
         IN  pairs(t[1])[t[2]].file.size + size_sum(ts \ {t})

\* the pairs extract is to write: those of the bundles that pass the bundle
\* filter and have their file, less the ones the file filter drops
due_tasks ==
    {<<k, j>> \in UNION {{k} \X DOMAIN ftask[k] : k \in DOMAIN ftask} :
        /\ shaders \/ ~contains(index.v.bundles[k + 1].path, shadercache)
        /\ ~file_missing(k)
        /\ shaders \/ ~is_shader(pairs(k)[j].path)}

\* C19: the value extract returns is the sum of f.size over the pairs whose
\* file was written, a pair counting once per write; these are exactly the
\* pairs left by the two filters and the missing-bundle skip, whatever order
\* the tasks ran in.
C19_ReturnedTotal ==
    pc = "extracted" /\ extRes.tag = "Ok"
        => /\ extRes.total = size_sum(done_tasks)
           /\ done_tasks = due_tasks

\* extract has returned the sum of two bundles, one of them with two files
C19_Witness ==
    /\ pc = "extracted"
    /\ extRes.tag = "Ok"
    /\ \E k1, k2 \in DOMAIN btask :
          /\ k1 # k2
          /\ btask[k1].st = "done" /\ btask[k2].st = "done"
          /\ btask[k1].total > 0 /\ btask[k2].total > 0
          /\ Len(ftask[k1]) > 1

\* C20: no two file tasks of one extract run have the same output file.
C20_DistinctTargets ==
    \A t1, t2 \in started_tasks :
        t1 # t2 => file_path(pairs(t1[1])[t1[2]].path)
                       # file_path(pairs(t2[1])[t2[2]].path)

\* loc is the location base or lies below it
is_under(loc, base) ==
    Len(loc) >= Len(base) /\ SubSeq(loc, 1, Len(base)) = base

\* C21: every file written and every directory created by extract lies
\* under the output root.
C21_UnderOutputRoot ==
    /\ \A f \in DOMAIN outfs.files : is_under(f, OutDir)
    /\ \A dir \in outfs.dirs \ EmptyFs.dirs : is_under(dir, OutDir)

\* a set of file tasks as a sequence, by bundle key and position
RECURSIVE in_order(_)
in_order(ts) ==
    IF ts = {} THEN <<>>
    ELSE LET t == CHOOSE t \in ts : \A u \in ts :
                      t[1] < u[1] \/ (t[1] = u[1] /\ t[2] <= u[2])
         IN  <<t>> \o in_order(ts \ {t})

\* the files after the file tasks of ts ran one after the other
RECURSIVE files_after(_, _)
files_after(ts, files) ==
    IF ts = <<>> THEN files
    ELSE LET e == pairs(Head(ts)[1])[Head(ts)[2]]
             f == file_path(e.path)
         IN  files_after(Tail(ts),
                 [g \in DOMAIN files \cup {f} |->
                     IF g = f
                     THEN read_bytes(btask[Head(ts)[1]].data, e.file.size,
                                     e.file.offset)
                     ELSE files[g]])

\* C22: the files that exist after extract has returned, and their contents,
\* are the same for every order of the bundle tasks and file tasks: they are
\* the ones that running the tasks one after the other leaves.
C22_Deterministic ==
    pc = "extracted" /\ extRes.tag = "Ok"
        => outfs.files = files_after(in_order(due_tasks), <<>>)

\* the decompressed dictionary of a parsed index
dict_bytes(ix) == DecompressAll(ix.path_bundle)

\* the slice of path record rec, if it lies in the dictionary
record_slice(bytes, rec) ==
    IF InRange(bytes, rec.offset, rec.size)
    THEN read_bytes(bytes, rec.size, rec.offset) ELSE <<>>

\* C23: a slice whose first u32 is not 0 is decoded with building = false
\* and with that u32 as the index of its first entry: the first string that
\* is decoded is the string that follows the u32, and it is an emitted one.
C23_EmitModeStart ==
    (pc = "index_parsed" /\ index.v.paths # <<>>
     /\ dict_bytes(index.v).tag = "Ok")
        => \A i \in 1..Len(index.v.paths) :
               LET bytes == dict_bytes(index.v).bytes
                   slice == record_slice(bytes, index.v.paths[i])
                   first == find_cstring(slice, 4)
                   res   == decode_record(bytes, index.v.paths[i])
               IN  (/\ Len(slice) >= 4
                    /\ read_u32(slice, 0) # 0
                    /\ first.tag = "Some")
                       => /\ res.tag = "Ok"
                          /\ res.emits # <<>>
                          /\ res.emits[1].string = first.string
                          /\ ~res.emits[1].building

\* the parsed index is the index of a generated program
is_prog ==
    /\ pc = "index_parsed"
    /\ index.v.bundles = <<>>
    /\ index.v.files = <<>>
    /\ Len(index.v.paths) = 1
    /\ input = prog_index(program(index.v.paths[1].hash))

\* the program of the parsed index
the_prog == program(index.v.paths[1].hash)

\* the outcome of decoding the dictionary of the parsed index
the_decode ==
    decode_records(dict_bytes(index.v).bytes, index.v.paths, <<>>)

\* the positions of the entries of program p, in order
entries(p) == SelectSeq([i \in 1..Len(p) |-> i], LAMBDA i : p[i] # 1)

\* building before token i of p: true at the start, flipped by each index 0
building_at(p, i) == Cardinality({j \in 1..(i - 1) : p[j] = 1}) % 2 = 0

\* the fragments held before token i of p: the entries since the last
\* index 0 that flipped building to true, or since the start
frags_at(p, i) ==
    {j \in 1..(i - 1) :
        /\ p[j] # 1
        /\ \A c \in (j + 1)..(i - 1) : ~(p[c] = 1 /\ building_at(p, c + 1))}

\* C24: an index 0 flips building and reads no string (every entry of the
\* program is decoded, each with building as flipped by the indexes 0 before
\* it), and the fragments held at an entry are the entries since building
\* last became true: fragments of a building pass are still there in the
\* emit pass that follows.
C24_FlipAndClear ==
    is_prog
        => LET p  == the_prog
               ds == the_decode.emits
           IN  /\ Len(ds) = Len(entries(p))
               /\ \A n \in 1..Len(ds) :
                      /\ ds[n].building = building_at(p, entries(p)[n])
                      /\ ds[n].nfrags
                             = Cardinality(frags_at(p, entries(p)[n]))

\* the program "d/" (building), index 0, "x" with index 1 (emit) was decoded
C24_Witness ==
    /\ is_prog
    /\ the_prog = <<4, 1, 2>>
    /\ cache # None

\* C25: an entry with wire index k and string str decodes to frags[k-1] + str
\* when k-1 < len(frags) and to str otherwise (which is no error); the result
\* is a fragment for the entries after it, in building and in emit mode.
C25_PrefixRule ==
    is_prog
        => LET p  == the_prog
               ds == the_decode.emits
           IN  /\ the_decode.tag = "Ok"
               /\ Len(ds) = Len(entries(p))
               /\ \A n \in 1..Len(ds) :
                      LET k   == token_index(p[entries(p)[n]])
                          str == token_string(p[entries(p)[n]])
                      IN  /\ ds[n].string =
                               IF k - 1 < ds[n].nfrags
                               THEN ds[n - ds[n].nfrags + k - 1].string \o str
                               ELSE str
                          /\ (n > 1 /\ ds[n].nfrags > 0)
                                 => ds[n].nfrags = ds[n - 1].nfrags + 1

\* a program was decoded in which index 3 finds no fragment and index 2 finds
\* two, one of them pushed in emit mode
C25_Witness ==
    /\ is_prog
    /\ the_prog = <<4, 1, 2, 3>>
    /\ cache # None

\* C26 as stated: an entry with wire index 1 decodes to its own string with
\* nothing in front, whatever frags holds.
C26_IndexOneStandalone ==
    is_prog
        => \A n \in 1..Len(the_decode.emits) :
               token_index(the_prog[entries(the_prog)[n]]) = 1
                   => the_decode.emits[n].string
                          = token_string(the_prog[entries(the_prog)[n]])

\* C26, amended: an entry with wire index 1 decodes to its own string when
\* frags is empty, and to frags[0] followed by its string otherwise.
C26_IndexOnePrefix ==
    is_prog
        => LET p  == the_prog
               ds == the_decode.emits
           IN  \A n \in 1..Len(ds) :
                   token_index(p[entries(p)[n]]) = 1
                       => ds[n].string =
                            IF ds[n].nfrags = 0
                            THEN token_string(p[entries(p)[n]])
                            ELSE ds[n - ds[n].nfrags].string
                                 \o token_string(p[entries(p)[n]])

\* index 1 was decoded with the fragments "x" and "d/" in frags
C26_Witness ==
    /\ is_prog
    /\ the_prog = <<2, 4, 2>>
    /\ cache # None

\* C27: no read of the decoding loop touches the last 4 bytes of a slice:
\* every entry ends (index, string and NUL) at a position <= n - 4.
C27_LastFourUnread ==
    (pc = "index_parsed" /\ index.v.paths # <<>>
     /\ dict_bytes(index.v).tag = "Ok")
        => \A i \in 1..Len(index.v.paths) :
               LET res == decode_record(dict_bytes(index.v).bytes,
                                        index.v.paths[i])
               IN  res.tag = "Ok"
                       => \A n \in 1..Len(res.emits) :
                              res.emits[n].end <= index.v.paths[i].size - 4

\* C28: for every path record the end offset + size of its slice is computed
\* without wraparound and without an arithmetic abort, and a record that is
\* decoded has its slice inside the decompressed dictionary.
C28_SliceEndExact ==
    (pc = "index_parsed" /\ dict_bytes(index.v).tag = "Ok")
        => \A i \in 1..Len(index.v.paths) :
               /\ ~end_overflows(index.v.paths[i])
               /\ decode_record(dict_bytes(index.v).bytes,
                                index.v.paths[i]).tag = "Ok"
                      => InRange(dict_bytes(index.v).bytes,
                                 index.v.paths[i].offset,
                                 index.v.paths[i].size)

\* C29: a conversion of a Bundle to bytes that was called returns: it never
\* calls itself again, and it does not end the process.
C29_ConversionReturns ==
    pc \in {"to_vec", "aborted"} => depth <= 1 /\ pc # "aborted"

\* C30: Bundle::new returns Ok only if Oodle compressed every chunk: no
\* returned bundle holds the zero-filled buffer of a chunk that failed.
\* Bundle::new itself never looks at the result of a chunk again; what this
\* formula measures is whether OodleLZ_CreateSeekTable accepts a buffer of the
\* length that the reserved-size zero buffers add up to.
C30_NoFailedChunk ==
    (newRes # None /\ newRes.res.tag = "Ok")
        => /\ newRes.oodleErr = {}
           /\ \A i \in 1..Len(newRes.res.bundle.chunks) :
                  newRes.res.bundle.chunks[i]
                      # Zeros(Len(newRes.res.bundle.chunks[i]))

====
